---------------------------- MODULE Spec2Model ----------------------------
(***************************************************************************)
(* Model of homework.py: a bot that polls the homework-review API and      *)
(* relays status changes to one Telegram chat.                             *)
(*                                                                         *)
(* Python values are modelled as follows.                                  *)
(*   - str: a formatted text is the tuple of its parts (the literal prefix *)
(*     and the interpolated values), so two texts are equal exactly when   *)
(*     they are built from the same parts; the empty string '' is <<>>.    *)
(*   - dict: a function whose DOMAIN is the set of keys that are present.  *)
(*   - a JSON value whose type the code inspects: [type |-> .., val |-> ..]*)
(*   - a call that may raise: [raised |-> FALSE, value |-> ..] or          *)
(*     [raised |-> TRUE, error |-> [type |-> <exception class>, ..]].      *)
(***************************************************************************)
EXTENDS Integers, Sequences, FiniteSets, TLC

\* ------------------------------------------------------------ bounds
\* the responses' current_date values are 0..MaxDate
MaxDate == 2

\* ------------------------------------------------------------ constants
RETRY_PERIOD == 600
RETRY_PERIOD_SECONDS == RETRY_PERIOD

HTTPStatus_OK == 200

HOMEWORK_VERDICTS ==
    [approved  |-> "Rabota proverena: revjueru vse ponravilos. Ura!",
     reviewing |-> "Rabota vzyata na proverku revjuerom.",
     rejected  |-> "Rabota proverena: u revjuera est zamechaniya."]

\* ------------------------------------------------------------ python values
None == [type |-> "NoneType"]
PyInt(n) == [type |-> "int", val |-> n]
PyList(s) == [type |-> "list", val |-> s]
PyDict(d) == [type |-> "dict", val |-> d]
EmptyStr == <<>>
EmptyDict == [k \in {} |-> None]

\* the outcome of a call: a value or an exception, and the calls of
\* bot.send_message it made, in order
Return(v) == [raised |-> FALSE, value |-> v, calls |-> <<>>]
Raise(cls, text) ==
    [raised |-> TRUE, error |-> [type |-> cls, text |-> text], calls |-> <<>>]

\* str(error): a KeyError prints the repr of its argument, the others the text
Str(error) ==
    IF error.type = "KeyError" THEN <<"'">> \o error.text \o <<"'">>
    ELSE error.text

\* truth value of None, an int or a str, as tested by `if x:` and `not x`
Truthy(v) ==
    CASE v.type = "NoneType" -> FALSE
      [] v.type = "int" -> v.val # 0
      [] v.type = "str" -> v.val # EmptyStr

\* d.get(key) of a dict
Get(d, key) == IF key \in DOMAIN d.val THEN d.val[key] ELSE None

\* list(d.keys()), the keys taken in the order `order`
Keys(d, order) == SelectSeq(order, LAMBDA k : k \in DOMAIN d)

\* ------------------------------------------------------------ inputs
TokenNames == <<"PRACTICUM_TOKEN", "TELEGRAM_TOKEN", "TELEGRAM_CHAT_ID">>
\* os.getenv gives None for a variable that is not set, '' for an empty one
TokenValues == {None, [type |-> "str", val |-> EmptyStr],
                [type |-> "str", val |-> <<"secret">>]}
Environments == [{TokenNames[i] : i \in 1..3} -> TokenValues]

\* int(time.time()) at startup
StartTimes == {1}

HomeworkNames == {"hw1"}
Statuses == {"approved", "reviewing", "rejected", "unknown"}

\* homework records: each of the two keys may be missing
Homeworks ==
    [homework_name : HomeworkNames, status : Statuses]
    \cup [homework_name : HomeworkNames]
    \cup [status : Statuses]
    \cup {EmptyDict}

\* the records that follow the first one in a response
TailHomeworks ==
    {[homework_name |-> "hw1", status |-> "approved"],
     [status |-> "unknown"]}

HomeworkLists ==
    {<<>>} \cup {<<h>> : h \in Homeworks}
    \cup {<<h, t>> : h \in Homeworks, t \in TailHomeworks}

\* values of the key "homeworks": a list, or JSON null
HomeworksValues == {PyList(l) : l \in HomeworkLists} \cup {None}
DateValues == {PyInt(n) : n \in 0..MaxDate}

\* parsed JSON bodies: a dict with each of the two keys present or not,
\* or a value that is no dict
Payloads ==
    {PyDict(d) : d \in [homeworks : HomeworksValues, current_date : DateValues]
                     \cup [homeworks : HomeworksValues]
                     \cup [current_date : DateValues]
                     \cup {EmptyDict}}
    \cup {PyList(<<>>)}

\* what requests.get does: it raises, or gives a response with a status
\* code and a body; json is the parsed body, None when the body is no JSON
NotJSON == [type |-> "invalid"]
SamplePayload == PyDict([homeworks |-> PyList(<<>>), current_date |-> PyInt(1)])
HttpOutcomes ==
    {[transport |-> "RequestException"]}
    \cup [transport : {"ok"}, status_code : {500}, json : {NotJSON, SamplePayload}]
    \cup [transport : {"ok"}, status_code : {HTTPStatus_OK},
          json : {NotJSON} \cup Payloads]

\* what bot.send_message does during one iteration: it delivers, or raises
\* one of the two exception classes the libraries document
Bots == {"ok", "RequestException", "ApiException"}

\* ------------------------------------------------------------ functions
check_tokens_first_two(environ) ==
    \A i \in 1..2 : Truthy(environ[TokenNames[i]])

check_tokens(environ) ==
    \A i \in 1..Len(TokenNames) : Truthy(environ[TokenNames[i]])

\* bot is what bot.send_message does; message[:50] is taken as the whole
\* message
send_message(bot, message) ==
    LET call == [message |-> message, delivered |-> bot = "ok"]
    IN  IF bot = "ok"
        THEN [Return(None) EXCEPT !.calls = <<call>>]
        ELSE [Raise("SendMessageError",
                    <<"Oshibka otpravki v Telegram. Chast soobshcheniya: ">>
                    \o message \o <<"Prichina: ", bot>>)
              EXCEPT !.calls = <<call>>]

\* response.text[:200] is taken as a mark of the kind of body
ResponseText(response) ==
    IF response.json = NotJSON THEN "<html>" ELSE "<json>"

\* the call of requests.get, with the parameters of the request
Request(timestamp_) == [requests |-> <<[from_date |-> timestamp_]>>]

\* get_api_answer that parses the body before it looks at the status code
get_api_answer_json_first(timestamp_, http) ==
    Request(timestamp_) @@
    IF http.transport # "ok"
    THEN Raise("HomeworkAPIError",
               <<"Oshibka seti pri zaprose k API. Prichina: ", http.transport>>)
    ELSE IF http.json = NotJSON
    THEN Raise("HomeworkAPIError",
               <<"Oshibka parsinga JSON ot API. Kod otveta: ",
                 ToString(http.status_code),
                 "Tekst otveta: ", ResponseText(http), "Prichina: ValueError">>)
    ELSE IF http.status_code # HTTPStatus_OK
    THEN Raise("HomeworkAPIError",
               <<"Endpoint nedostupen. Kod otveta: ", ToString(http.status_code),
                 "Tekst oshibki: ", ResponseText(http)>>)
    ELSE Return(http.json)

\* the result carries, beside the value or the exception, the requests made
get_api_answer(timestamp_, http) ==
    Request(timestamp_) @@
    IF http.transport # "ok"
    THEN Raise("HomeworkAPIError",
               <<"Oshibka seti pri zaprose k API. Prichina: ", http.transport>>)
    ELSE IF http.status_code # HTTPStatus_OK
    THEN Raise("HomeworkAPIError",
               <<"Endpoint nedostupen. Kod otveta: ", ToString(http.status_code),
                 "Tekst oshibki: ", ResponseText(http)>>)
    ELSE IF http.json = NotJSON
    THEN Raise("HomeworkAPIError",
               <<"Oshibka parsinga JSON ot API. Kod otveta: ",
                 ToString(http.status_code),
                 "Tekst otveta: ", ResponseText(http), "Prichina: ValueError">>)
    ELSE Return(http.json)

ResponseKeys == <<"homeworks", "current_date">>

\* check_response without its last test
check_response_no_date(response) ==
    IF response.type # "dict"
    THEN Raise("TypeError", <<"Otvet API imeet nekorrektnyi tip.">>)
    ELSE IF "homeworks" \notin DOMAIN response.val
    THEN Raise("KeyError", <<"V otvete API otsutstvuet klyuch homeworks.">>)
    ELSE IF response.val["homeworks"].type # "list"
    THEN Raise("TypeError", <<"Klyuch homeworks imeet nekorrektnyi tip.">>)
    ELSE Return(response.val["homeworks"])

check_response(response) ==
    IF response.type # "dict"
    THEN Raise("TypeError",
               <<"Otvet API imeet nekorrektnyi tip. Ozhidalsya dict, poluchen ",
                 response.type>>)
    ELSE IF "homeworks" \notin DOMAIN response.val
    THEN Raise("KeyError",
               <<"V otvete API otsutstvuet klyuch homeworks. Klyuchi: ">>
               \o Keys(response.val, ResponseKeys))
    ELSE LET homeworks_ == response.val["homeworks"] IN
    IF homeworks_.type # "list"
    THEN Raise("TypeError",
               <<"Klyuch homeworks imeet nekorrektnyi tip. Ozhidalsya list, poluchen ",
                 homeworks_.type>>)
    ELSE IF "current_date" \notin DOMAIN response.val
    THEN Raise("KeyError",
               <<"V otvete API otsutstvuet klyuch current_date. Klyuchi: ">>
               \o Keys(response.val, ResponseKeys))
    ELSE Return(homeworks_)

HomeworkKeys == <<"homework_name", "status">>

\* parse_status with a default verdict in place of the membership test
parse_status_default_verdict(homework) ==
    IF "homework_name" \notin DOMAIN homework
    THEN Raise("KeyError", <<"otsutstvuet klyuch homework_name">>)
    ELSE IF "status" \notin DOMAIN homework
    THEN Raise("KeyError", <<"otsutstvuet klyuch status">>)
    ELSE Return(<<"Izmenilsya status proverki raboty ",
                  homework["homework_name"],
                  IF homework["status"] \in DOMAIN HOMEWORK_VERDICTS
                  THEN HOMEWORK_VERDICTS[homework["status"]]
                  ELSE HOMEWORK_VERDICTS["reviewing"]>>)

parse_status(homework) ==
    IF "homework_name" \notin DOMAIN homework
    THEN Raise("KeyError",
               <<"V dannyh domashnei raboty otsutstvuet klyuch homework_name. Klyuchi: ">>
               \o Keys(homework, HomeworkKeys))
    ELSE IF "status" \notin DOMAIN homework
    THEN Raise("KeyError",
               <<"V dannyh domashnei raboty otsutstvuet klyuch status. Klyuchi: ">>
               \o Keys(homework, HomeworkKeys))
    ELSE LET homework_name == homework["homework_name"]
             status == homework["status"]
         IN
    IF status \notin DOMAIN HOMEWORK_VERDICTS
    THEN Raise("ValueError",
               <<"Poluchen neizvestnyi status domashnei raboty: ", status,
                 "Nazvanie raboty: ", homework_name>>)
    ELSE Return(<<"Izmenilsya status proverki raboty ", homework_name,
                  HOMEWORK_VERDICTS[status]>>)

\* process_status_update without the comparison with last_status
process_status_update_always_sends(homeworks_, bot, last_status, response) ==
    IF homeworks_.val = <<>>
    THEN Return(<<last_status, None>>)
    ELSE LET parsed == parse_status(homeworks_.val[1]) IN
    IF parsed.raised
    THEN parsed
    ELSE LET sent == send_message(bot, parsed.value) IN
         IF sent.raised
         THEN sent
         ELSE [Return(<<parsed.value, Get(response, "current_date")>>)
               EXCEPT !.calls = sent.calls]

\* process_status_update that takes the last element in place of the first
process_status_update_last_element(homeworks_, bot, last_status, response) ==
    IF homeworks_.val = <<>>
    THEN Return(<<last_status, None>>)
    ELSE LET parsed == parse_status(homeworks_.val[Len(homeworks_.val)]) IN
    IF parsed.raised
    THEN parsed
    ELSE IF parsed.value # last_status
    THEN LET sent == send_message(bot, parsed.value) IN
         IF sent.raised
         THEN sent
         ELSE [Return(<<parsed.value, Get(response, "current_date")>>)
               EXCEPT !.calls = sent.calls]
    ELSE Return(<<last_status, None>>)

\* process_status_update that returns the date also for a duplicate
process_status_update_date_on_duplicate(homeworks_, bot, last_status, response) ==
    IF homeworks_.val = <<>>
    THEN Return(<<last_status, None>>)
    ELSE LET parsed == parse_status(homeworks_.val[1]) IN
    IF parsed.raised
    THEN parsed
    ELSE IF parsed.value # last_status
    THEN LET sent == send_message(bot, parsed.value) IN
         IF sent.raised
         THEN sent
         ELSE [Return(<<parsed.value, Get(response, "current_date")>>)
               EXCEPT !.calls = sent.calls]
    ELSE Return(<<last_status, Get(response, "current_date")>>)

\* process_status_update that swallows the failure of send_message
process_status_update_swallows(homeworks_, bot, last_status, response) ==
    IF homeworks_.val = <<>>
    THEN Return(<<last_status, None>>)
    ELSE LET parsed == parse_status(homeworks_.val[1]) IN
    IF parsed.raised
    THEN parsed
    ELSE IF parsed.value # last_status
    THEN LET sent == send_message(bot, parsed.value) IN
         [Return(<<parsed.value, Get(response, "current_date")>>)
          EXCEPT !.calls = sent.calls]
    ELSE Return(<<last_status, None>>)

process_status_update(homeworks_, bot, last_status, response) ==
    IF homeworks_.val = <<>>
    THEN Return(<<last_status, None>>)
    ELSE LET parsed == parse_status(homeworks_.val[1]) IN
    IF parsed.raised
    THEN parsed
    ELSE LET message == parsed.value IN
    IF message # last_status
    THEN LET sent == send_message(bot, message) IN
         IF sent.raised
         THEN sent
         ELSE [Return(<<message, Get(response, "current_date")>>)
               EXCEPT !.calls = sent.calls]
    ELSE Return(<<last_status, None>>)

\* handle_errors without the comparison with last_error
handle_errors_always_sends(error, bot, last_error_) ==
    LET error_message == <<"Sboi v rabote programmy: ">> \o Str(error)
        sent == send_message(bot, error_message)
    IN  IF sent.raised
        THEN [Return(last_error_) EXCEPT !.calls = sent.calls]
        ELSE [Return(error_message) EXCEPT !.calls = sent.calls]

\* handle_errors without its try/except around send_message
handle_errors_uncaught(error, bot, last_error_) ==
    LET error_message == <<"Sboi v rabote programmy: ">> \o Str(error) IN
    IF error_message # last_error_
    THEN LET sent == send_message(bot, error_message) IN
         IF sent.raised
         THEN sent
         ELSE [Return(error_message) EXCEPT !.calls = sent.calls]
    ELSE Return(last_error_)

\* handle_errors that remembers the message whether or not it was delivered
handle_errors_records_unsent(error, bot, last_error_) ==
    LET error_message == <<"Sboi v rabote programmy: ">> \o Str(error) IN
    IF error_message # last_error_
    THEN LET sent == send_message(bot, error_message) IN
         IF sent.raised /\ sent.error.type # "SendMessageError"
         THEN sent
         ELSE [Return(error_message) EXCEPT !.calls = sent.calls]
    ELSE Return(last_error_)

handle_errors(error, bot, last_error_) ==
    LET error_message == <<"Sboi v rabote programmy: ">> \o Str(error) IN
    IF error_message # last_error_
    THEN LET sent == send_message(bot, error_message) IN
         IF sent.raised /\ sent.error.type = "SendMessageError"
         THEN [Return(last_error_) EXCEPT !.calls = sent.calls]
         ELSE IF sent.raised
         THEN sent
         ELSE [Return(error_message) EXCEPT !.calls = sent.calls]
    ELSE Return(last_error_)

\* ------------------------------------------------------------ state
VARIABLES
    environ,               \* os.environ: the three tokens
    pc,                    \* where main() is: start, try, finally, exited, raised
    exit_code,             \* the argument of sys.exit, None while running
    timestamp,             \* main's cursor
    last_error,            \* main's last reported error message
    last_homework_status,  \* main's last delivered status message
    api_response,          \* main's local, None outside an iteration
    homeworks,             \* main's local, None outside an iteration
    pending,               \* the exception leaving the except clause, or None
    \* what the outside sees (history, read by no action)
    cycle,                 \* the iteration in progress: its requests and sends
    prev,                  \* what the previous iteration did with its message
    slept,                 \* the sleeps since the last iteration's try block
    network,               \* the kinds of network call made so far
    last_delivered,        \* the last status message that reached the chat
    watch,                 \* the deliveries of one chosen message
    trail,                 \* the last iterations, when they are followed
    last_date              \* when they are: the startup time, then the
                           \* current_date of the last response whose
                           \* notification was delivered

vars == <<environ, pc, exit_code, timestamp, last_error, last_homework_status,
          api_response, homeworks, pending, cycle, prev, slept, network,
          last_delivered, last_date, watch, trail>>

history == <<cycle, prev, slept, network, last_delivered, last_date, watch,
             trail>>

InitWith(watched, trails) ==
    /\ environ \in Environments
    /\ pc = "start"
    /\ exit_code = None
    /\ timestamp = None
    /\ last_error = EmptyStr
    /\ last_homework_status = EmptyStr
    /\ api_response = None
    /\ homeworks = None
    /\ pending = None
    /\ cycle = None
    /\ prev = None
    /\ slept = <<>>
    /\ network = {}
    /\ last_delivered = EmptyStr
    /\ last_date = None
    /\ watch \in watched
    /\ trail \in trails

Init == InitWith({None}, {None})

\* main, lines 210-211: a token is missing
Exit ==
    /\ pc = "start"
    /\ ~check_tokens(environ)
    /\ pc' = "exited"
    /\ exit_code' = PyInt(1)
    /\ UNCHANGED <<environ, timestamp, last_error, last_homework_status,
                   api_response, homeworks, pending, history>>

\* main, lines 210-216: the tokens are there
Startup ==
    /\ pc = "start"
    /\ check_tokens(environ)
    /\ \E now \in StartTimes : timestamp' = PyInt(now)
    /\ last_date' = IF trail.type # "list" THEN None ELSE timestamp'
    /\ last_error' = EmptyStr
    /\ last_homework_status' = EmptyStr
    /\ pc' = "try"
    /\ UNCHANGED <<environ, exit_code, api_response, homeworks, pending,
                   cycle, prev, slept, network, last_delivered, watch, trail>>

\* the messages among `calls` that reached the chat
Delivered(calls) ==
    LET ok == SelectSeq(calls, LAMBDA c : c.delivered)
    IN  [i \in 1..Len(ok) |-> ok[i].message]

Count(seq, x) == Len(SelectSeq(seq, LAMBDA y : y = x))

Min(a, b) == IF a < b THEN a ELSE b

\* how often an iteration called bot.send_message with `message`, and how
\* often that reached the chat
Attempts(c, message) ==
    Len(SelectSeq(c.status_calls \o c.error_calls,
                  LAMBDA call : call.message = message))
Deliveries(c, message) ==
    Count(Delivered(c.status_calls \o c.error_calls), message)

\* the message the first element of the response translates to, '' when
\* there is none
FirstMessage(chk) ==
    IF chk.raised \/ chk.value.type # "list" \/ chk.value.val = <<>>
    THEN EmptyStr
    ELSE LET parsed == parse_status(chk.value.val[1])
         IN  IF parsed.raised THEN EmptyStr ELSE parsed.value

ErrorMessage(error) == <<"Sboi v rabote programmy: ">> \o Str(error)

\* a main whose only except clause is the one that calls handle_errors
Handled_by_all(error) == TRUE

\* main, lines 232-237: the except clause an exception of the try block
\* ends in: TRUE for handle_errors, FALSE for the one that only logs

Handled(error) == error.type # "SendMessageError"

\* a try block that does not end with last_error = ''
TryExcept_keeps_last_error(http, bot, timestamp_, last_status, last_error_) ==
    LET api == get_api_answer(timestamp_, http)
        chk == IF api.raised THEN api ELSE check_response(api.value)
        upd == IF chk.raised THEN chk
               ELSE process_status_update(chk.value, bot, last_status, api.value)
        handled == upd.raised /\ Handled(upd.error)
        hnd == IF handled
               THEN handle_errors(upd.error, bot, last_error_)
               ELSE Return(last_error_)
    IN  [api |-> api, chk |-> chk, upd |-> upd, hnd |-> hnd,
         last_homework_status |->
             IF upd.raised THEN last_status ELSE upd.value[1],
         timestamp |->
             IF ~upd.raised /\ Truthy(upd.value[2])
             THEN upd.value[2] ELSE timestamp_,
         last_error |->
             IF handled /\ ~hnd.raised THEN hnd.value ELSE last_error_,
         pending |-> IF hnd.raised THEN hnd.error ELSE None]

\* main, lines 219-238: the calls of the try block and of the except
\* clause, for one response and one bot, from the given values of main's
\* three variables
TryExcept(http, bot, timestamp_, last_status, last_error_) ==
    LET api == get_api_answer(timestamp_, http)
        chk == IF api.raised THEN api ELSE check_response(api.value)
        upd == IF chk.raised THEN chk
               ELSE process_status_update(chk.value, bot, last_status, api.value)
        handled == upd.raised /\ Handled(upd.error)
        hnd == IF handled
               THEN handle_errors(upd.error, bot, last_error_)
               ELSE Return(last_error_)
    IN  [api |-> api, chk |-> chk, upd |-> upd, hnd |-> hnd,
         last_homework_status |->
             IF upd.raised THEN last_status ELSE upd.value[1],
         timestamp |->
             IF ~upd.raised /\ Truthy(upd.value[2])
             THEN upd.value[2] ELSE timestamp_,
         last_error |->
             IF ~upd.raised THEN EmptyStr
             ELSE IF handled /\ ~hnd.raised THEN hnd.value
             ELSE last_error_,
         pending |-> IF hnd.raised THEN hnd.error ELSE None]

\* what the chat and main's variables show of the calls of one iteration
Seen(t) ==
    [timestamp |-> t.timestamp,
     last_homework_status |-> t.last_homework_status,
     last_error |-> t.last_error,
     error |-> IF t.upd.raised THEN t.upd.error ELSE None,
     status_calls |-> t.upd.calls,
     error_calls |-> t.hnd.calls]

\* the response with the elements of `homeworks` after the first removed
FirstOnly(http) ==
    IF /\ http.transport = "ok"
       /\ http.json # NotJSON
       /\ http.json.type = "dict"
       /\ "homeworks" \in DOMAIN http.json.val
       /\ http.json.val["homeworks"].type = "list"
       /\ Len(http.json.val["homeworks"].val) > 1
    THEN [http EXCEPT !.json.val["homeworks"].val = <<@[1]>>]
    ELSE http

\* one more iteration at the end of the trail of the last three
Follow(t, c) ==
    IF t.type # "list" THEN None
    ELSE PyList(SubSeq(t.val, Len(t.val) - Min(Len(t.val), 2) + 1, Len(t.val))
                \o <<c>>)

\* main, lines 219-238: the try block and the except clause it ends in
Iteration(Https, BotSet) ==
    /\ pc = "try"
    /\ \E http \in Https, bot \in BotSet :
      \E t \in {TryExcept(http, bot, timestamp, last_homework_status,
                          last_error)},
         twin \in {Seen(TryExcept(FirstOnly(http), bot, timestamp,
                                  last_homework_status, last_error))} :
        LET api == t.api
            chk == t.chk
            upd == t.upd
            hnd == t.hnd
            sent == Delivered(upd.calls)
            first == FirstMessage(chk)
        IN  /\ api_response' = IF api.raised THEN api_response ELSE api.value
            /\ homeworks' = IF chk.raised THEN homeworks ELSE chk.value
            /\ last_homework_status' = t.last_homework_status
            /\ timestamp' = t.timestamp
            /\ last_error' = t.last_error
            /\ pending' = t.pending
            /\ cycle' = [from_dates |-> [i \in 1..Len(api.requests) |->
                                            api.requests[i].from_date],
                         http |-> http,
                         before |-> [timestamp |-> timestamp,
                                     last_error |-> last_error,
                                     last_homework_status |-> last_homework_status],
                         first |-> first,
                         error |-> IF upd.raised THEN upd.error ELSE None,
                         status_calls |-> upd.calls,
                         error_calls |-> hnd.calls,
                         twin |-> twin]
            /\ network' = network \cup {"get"}
                   \cup (IF upd.calls \o hnd.calls # <<>> THEN {"send"} ELSE {})
            /\ last_delivered' =
                   IF sent # <<>> THEN sent[Len(sent)] ELSE last_delivered
            /\ last_date' =
                   IF trail.type = "list" /\ sent # <<>>
                   THEN Get(api.value, "current_date")
                   ELSE last_date
            /\ watch' =
                   IF watch = None THEN None
                   ELSE LET calls == upd.calls \o hnd.calls
                            n == Count(Delivered(calls), watch.text)
                            same == upd.raised
                                    /\ ErrorMessage(upd.error) = watch.text
                        IN  [text |-> watch.text,
                             total |-> Min(2, watch.total + n),
                             run |-> IF same THEN Min(2, watch.run + n) ELSE 0,
                             quiet |-> IF same THEN FALSE
                                       ELSE watch.quiet \/ ~upd.raised,
                             failed |-> same /\ n = 0 /\ calls # <<>>,
                             was |-> [total |-> watch.total,
                                      quiet |-> watch.quiet,
                                      failed |-> watch.failed]]
            /\ trail' = Follow(trail,
                               [first |-> first,
                                before |-> last_homework_status,
                                attempted |-> Len(upd.calls),
                                delivered |-> Len(sent)])
    /\ slept' = <<>>
    /\ pc' = "finally"
    /\ UNCHANGED <<environ, exit_code, prev>>

\* the sleep at the end of the try block in place of the finally clause
Finally_sleep_in_try ==
    /\ pc = "finally"
    /\ slept' = IF cycle.error = None
                THEN Append(slept, RETRY_PERIOD_SECONDS) ELSE slept
    /\ pc' = IF pending = None THEN "try" ELSE "raised"
    /\ prev' = IF cycle.first = EmptyStr THEN None
                ELSE [first |-> cycle.first,
                      fresh |-> cycle.first # cycle.before.last_homework_status,
                      attempted |-> Attempts(cycle, cycle.first),
                      delivered |-> Deliveries(cycle, cycle.first)]
    /\ cycle' = None
    /\ api_response' = None
    /\ homeworks' = None
    /\ UNCHANGED <<environ, exit_code, timestamp, last_error,
                   last_homework_status, pending, network, last_delivered,
                   last_date, watch, trail>>

\* main, lines 240-241: sleep, then go round the loop, or let the exception
\* of the except clause leave main. The locals api_response and homeworks
\* are dead here (the next iteration assigns each before it reads it) and
\* are set back to None.
Finally ==
    /\ pc = "finally"
    /\ slept' = Append(slept, RETRY_PERIOD_SECONDS)
    /\ pc' = IF pending = None THEN "try" ELSE "raised"
    /\ prev' = IF cycle.first = EmptyStr THEN None
                ELSE [first |-> cycle.first,
                      fresh |-> cycle.first # cycle.before.last_homework_status,
                      attempted |-> Attempts(cycle, cycle.first),
                      delivered |-> Deliveries(cycle, cycle.first)]
    /\ cycle' = None
    /\ api_response' = None
    /\ homeworks' = None
    /\ UNCHANGED <<environ, exit_code, timestamp, last_error,
                   last_homework_status, pending, network, last_delivered,
                   last_date, watch, trail>>

Next == Exit \/ Startup \/ Iteration(HttpOutcomes, Bots) \/ Finally

Spec == Init /\ [][Next]_vars

\* The same program, with the deliveries of one error message counted over
\* the whole run: the message of the network error, of the HTTP error or of
\* the unknown status.
\* The responses are the failures of get_api_answer and the well-formed
\* payloads of at most one homework, approved or of unknown status.
WatchedHttp ==
    {[transport |-> "RequestException"],
     [transport |-> "ok", status_code |-> 500, json |-> NotJSON]}
WatchedMessages ==
    {ErrorMessage(get_api_answer(None, http).error) : http \in WatchedHttp}
    \cup {ErrorMessage(parse_status([homework_name |-> "hw1",
                                     status |-> "unknown"]).error)}

\* watch: the message; its deliveries so far (2 for more) and in the present
\* run of iterations that raise its error; quiet: an iteration without
\* exception has ended since the last one that raised its error; failed: the
\* last iteration raised its error and could not send it; was: total, quiet
\* and failed before the last iteration
Watch(m) ==
    [text |-> m, total |-> 0, run |-> 0, quiet |-> FALSE, failed |-> FALSE,
     was |-> [total |-> 0, quiet |-> FALSE, failed |-> FALSE]]

InitWatch == InitWith({Watch(m) : m \in WatchedMessages}, {None})

WatchedPayloads ==
    {PyDict([homeworks |-> PyList(l), current_date |-> d]) :
        l \in {<<>>,
               <<[homework_name |-> "hw1", status |-> "approved"]>>,
               <<[homework_name |-> "hw1", status |-> "unknown"]>>},
        d \in DateValues}

WatchHttpOutcomes ==
    {http \in HttpOutcomes :
        (http.transport = "ok" /\ http.status_code = HTTPStatus_OK)
            => http.json \in {NotJSON} \cup WatchedPayloads}

\* The same program with its last three iterations followed. The responses
\* are the failures of get_api_answer and the well-formed payloads of no
\* homework, of one that is approved, rejected or of unknown status, and of
\* an approved one followed by a malformed one.
InitTrail == InitWith({None}, {PyList(<<>>)})

TrailPayloads ==
    {PyDict([homeworks |-> PyList(l), current_date |-> d]) :
        l \in {<<>>,
               <<[homework_name |-> "hw1", status |-> "approved"]>>,
               <<[homework_name |-> "hw1", status |-> "rejected"]>>,
               <<[homework_name |-> "hw1", status |-> "unknown"]>>,
               <<[homework_name |-> "hw1", status |-> "approved"],
                 [status |-> "unknown"]>>},
        d \in DateValues}

TrailHttpOutcomes ==
    {http \in HttpOutcomes :
        (http.transport = "ok" /\ http.status_code = HTTPStatus_OK)
            => http.json \in {NotJSON} \cup TrailPayloads}

NextTrail == Exit \/ Startup \/ Iteration(TrailHttpOutcomes, Bots) \/ Finally

SpecTrail == InitTrail /\ [][NextTrail]_vars

NextWatch == Exit \/ Startup \/ Iteration(WatchHttpOutcomes, Bots) \/ Finally

SpecWatch == InitWatch /\ [][NextWatch]_vars

\* The same program while the API keeps returning one homework, approved,
\* as the first element of `homeworks`, with the deliveries of its message
\* counted. The responses are the failures of get_api_answer and the
\* well-formed payloads that begin with that homework.
RetryHomework == [homework_name |-> "hw1", status |-> "approved"]

RetryMessage == parse_status(RetryHomework).value

InitRetry == InitWith({Watch(RetryMessage)}, {None})

RetryPayloads ==
    {PyDict([homeworks |-> PyList(l), current_date |-> d]) :
        l \in {<<RetryHomework>>, <<RetryHomework, [status |-> "unknown"]>>},
        d \in DateValues}

RetryHttpOutcomes ==
    {http \in HttpOutcomes :
        (http.transport = "ok" /\ http.status_code = HTTPStatus_OK)
            => http.json \in {NotJSON} \cup RetryPayloads}

\* an iteration that gets a well-formed response and whose bot delivers
Delivering ==
    Iteration({http \in RetryHttpOutcomes :
                  /\ http.transport = "ok"
                  /\ http.status_code = HTTPStatus_OK
                  /\ http.json \in RetryPayloads},
              {"ok"})

NextRetry == Exit \/ Startup \/ Iteration(RetryHttpOutcomes, Bots) \/ Finally

\* The loop of main goes on for ever (weak fairness of the next step), and
\* the iterations in which the fetch and the delivery succeed do not stay
\* away for ever (strong fairness of Delivering).
SpecRetry ==
    InitRetry /\ [][NextRetry]_vars /\ WF_vars(NextRetry) /\ SF_vars(Delivering)

\* ------------------------------------------------------------ claims
\* the previous iteration and the one that has just run its try block
\* translated the first element of `homeworks` to the same text
SameMessageTwice ==
    /\ pc = "finally"
    /\ prev # None
    /\ prev.first = cycle.first

\* C1, as claimed: across two consecutive polling cycles whose first
\* homework translates to the same message text, exactly one notification
\* with that text is delivered to the chat.
C1_ExactlyOneOverTwoCycles ==
    SameMessageTwice =>
        prev.delivered + Deliveries(cycle, cycle.first) = 1

\* C1, amended: across two such cycles at most one notification with that
\* text is delivered: exactly one when the text differs from
\* last_homework_status at the start of the first cycle and one of the
\* delivery attempts succeeds, none when the text equals
\* last_homework_status (no attempt is made) or when the attempts of both
\* cycles fail.
C1_AtMostOneOverTwoCycles ==
    SameMessageTwice =>
        LET attempted == prev.attempted + Attempts(cycle, cycle.first)
            delivered == prev.delivered + Deliveries(cycle, cycle.first)
        IN  /\ delivered <= 1
            /\ IF prev.fresh
               THEN delivered = 1 \/ (delivered = 0 /\ attempted = 2)
               ELSE delivered = 0 /\ attempted = 0

\* a message delivered in one cycle and skipped as a duplicate in the next
C1_Witness ==
    /\ SameMessageTwice
    /\ prev.delivered = 1
    /\ cycle.status_calls = <<>>
    /\ cycle.error = None

\* C3, as claimed: a cycle that delivers a homework notification ends with
\* the cursor equal to the current_date of its response, and a cycle that
\* skips the notification as a duplicate leaves the cursor unchanged.
C3_CursorFollowsDelivery ==
    pc = "finally" =>
        /\ Delivered(cycle.status_calls) # <<>> =>
               timestamp = api_response.val["current_date"]
        /\ (cycle.first # EmptyStr
            /\ cycle.first = cycle.before.last_homework_status) =>
               timestamp = cycle.before.timestamp

\* one of the three tokens is not set or is empty
TokenMissing ==
    \E i \in 1..3 :
        \/ environ[TokenNames[i]] = None
        \/ environ[TokenNames[i]] = [type |-> "str", val |-> EmptyStr]

\* C4: with one of the three tokens missing or empty, main() exits with
\* status 1 and the run makes no GET and sends no message.
C4_NoNetworkWithoutTokens ==
    TokenMissing =>
        /\ pc \in {"start", "exited"}
        /\ pc = "exited" => exit_code = PyInt(1)
        /\ network = {}
        /\ cycle = None /\ prev = None

\* main has exited, the last token being the empty string
C4_Witness ==
    /\ pc = "exited"
    /\ environ["PRACTICUM_TOKEN"].type = "str"
    /\ environ["TELEGRAM_TOKEN"].type = "str"
    /\ environ["TELEGRAM_CHAT_ID"] = [type |-> "str", val |-> EmptyStr]

\* C5: once the token check has passed the loop never ends: whatever the
\* outcome of a cycle, no exception leaves main and a next step exists.
C5_LoopNeverEnds ==
    pc \notin {"start", "exited"} =>
        /\ pc \in {"try", "finally"}
        /\ pending = None
        /\ ENABLED Next

\* a cycle whose error message could not be delivered
C5_Witness ==
    /\ pc = "finally"
    /\ cycle.error # None
    /\ cycle.error_calls # <<>>
    /\ ~cycle.error_calls[1].delivered

\* C6: between the try blocks of two iterations there is exactly one sleep
\* of RETRY_PERIOD seconds, whatever the first iteration ended in.
C6_OneSleepPerIteration ==
    /\ pc = "finally" => slept = <<>>
    /\ (pc = "try" /\ "get" \in network) => slept = <<RETRY_PERIOD>>
    /\ pc = "raised" => slept = <<RETRY_PERIOD>>

\* the loop is about to fetch again after a cycle that reported an error
C6_Witness ==
    /\ pc = "try"
    /\ last_error # EmptyStr
    /\ slept = <<RETRY_PERIOD>>

\* C7: last_homework_status is '' while no homework notification has been
\* delivered, and otherwise the text of the last one that was delivered.
C7_LastStatusIsLastDelivered ==
    last_homework_status = last_delivered

\* a status message has been delivered before, and the delivery of another
\* one has just failed
C7_Witness ==
    /\ pc = "finally"
    /\ last_homework_status # EmptyStr
    /\ cycle.status_calls # <<>>
    /\ ~cycle.status_calls[1].delivered
    /\ cycle.status_calls[1].message # last_homework_status

\* C2, as claimed: over the whole run at most one notification carrying a
\* given formatted error message is delivered, however many cycles raise
\* that error.
C2_AtMostOncePerText ==
    watch # None => watch.total <= 1

\* C2, amended: over any run of consecutive polling cycles that raise the
\* same error, at most one notification carrying its formatted message is
\* delivered.
C2_AtMostOncePerRun ==
    watch # None => watch.run <= 1

\* the watched error was reported in this run of cycles, and the cycle that
\* has just raised it again sent nothing
C2_Witness ==
    /\ watch # None
    /\ pc = "finally"
    /\ watch.run = 1
    /\ cycle.error # None
    /\ ErrorMessage(cycle.error) = watch.text
    /\ cycle.error_calls = <<>>

\* a payload check_response has to refuse
BadShape(payload) ==
    \/ payload.type # "dict"
    \/ "homeworks" \notin DOMAIN payload.val
    \/ payload.val["homeworks"].type # "list"
    \/ "current_date" \notin DOMAIN payload.val

\* C8: check_response raises, and the cycle sends no homework notification,
\* when the payload is no mapping, lacks `homeworks` or `current_date`, or
\* has a `homeworks` that is no list; for every other payload it returns
\* the value of `homeworks` unchanged.
C8_CheckResponse ==
    (pc = "finally" /\ api_response # None) =>
        IF BadShape(api_response)
        THEN /\ cycle.error # None
             /\ cycle.error.type \in {"TypeError", "KeyError"}
             /\ homeworks = None
             /\ cycle.status_calls = <<>>
        ELSE homeworks = api_response.val["homeworks"]

\* a response with a well-formed first homework and no current_date
C8_Witness ==
    /\ pc = "finally"
    /\ api_response.type = "dict"
    /\ DOMAIN api_response.val = {"homeworks"}
    /\ api_response.val["homeworks"].type = "list"
    /\ api_response.val["homeworks"].val # <<>>
    /\ api_response.val["homeworks"].val[1] =
           [homework_name |-> "hw1", status |-> "approved"]
    /\ cycle.error.type = "KeyError"

ErrorHandled ==
    /\ pc = "finally"
    /\ cycle.error # None
    /\ cycle.error.type # "SendMessageError"

\* C10: a cycle whose fetch, validation or translation raises makes exactly
\* one attempt to deliver the formatted message when it differs from
\* last_error and none when it equals last_error, and a failure of that
\* delivery does not leave the cycle.
C10_ErrorReportedOnce ==
    ErrorHandled =>
        LET error_message == <<"Sboi v rabote programmy: ">> \o Str(cycle.error)
        IN  /\ IF error_message # cycle.before.last_error
               THEN /\ Len(cycle.error_calls) = 1
                    /\ cycle.error_calls[1].message = error_message
               ELSE cycle.error_calls = <<>>
            /\ cycle.status_calls = <<>>
            /\ pending = None

\* the error of this cycle is the one reported last, and nothing was sent
C10_Witness ==
    /\ ErrorHandled
    /\ cycle.before.last_error # EmptyStr
    /\ ErrorMessage(cycle.error) = cycle.before.last_error
    /\ cycle.error_calls = <<>>

\* C11: a cycle that delivers no homework notification (a fetch error, a
\* shape error, an unknown status, a failed delivery, an empty list or a
\* duplicate) leaves the cursor and last_homework_status as they were.
C11_NoDeliveryNoChange ==
    (pc = "finally" /\ Delivered(cycle.status_calls) = <<>>) =>
        /\ timestamp = cycle.before.timestamp
        /\ last_homework_status = cycle.before.last_homework_status

\* a duplicate is skipped after the cursor has moved, the response carrying
\* another date than the cursor
C11_Witness ==
    /\ pc = "finally"
    /\ cycle.error = None
    /\ cycle.first # EmptyStr
    /\ cycle.first = cycle.before.last_homework_status
    /\ cycle.status_calls = <<>>
    /\ Truthy(api_response.val["current_date"])
    /\ api_response.val["current_date"] # cycle.before.timestamp

\* in a cycle whose fetch and validation succeeded, a delivery of a homework
\* notification is attempted exactly when `homeworks` is not empty and the
\* message of its first element differs from last_homework_status
AttemptIffNew ==
    (pc = "finally" /\ homeworks # None) =>
        /\ cycle.status_calls # <<>> <=>
               /\ homeworks.val # <<>>
               /\ cycle.first # EmptyStr
               /\ cycle.first # cycle.before.last_homework_status
        /\ \A i \in 1..Len(cycle.status_calls) :
               cycle.status_calls[i].message = cycle.first

\* the last three cycles translated their first homework to A, B, A
StatusesABA ==
    /\ trail.type = "list"
    /\ Len(trail.val) = 3
    /\ trail.val[1].first # EmptyStr
    /\ trail.val[2].first # EmptyStr
    /\ trail.val[2].first # trail.val[1].first
    /\ trail.val[3].first = trail.val[1].first

TrailAttempts ==
    trail.val[1].attempted + trail.val[2].attempted + trail.val[3].attempted

\* C12, as claimed: a delivery is attempted exactly when `homeworks` is not
\* empty and the first message differs from last_homework_status, and the
\* statuses A, B, A over three cycles produce three attempts.
C12_AttemptIffNew_ABA ==
    /\ AttemptIffNew
    /\ StatusesABA => TrailAttempts = 3

\* C12, amended: a delivery is attempted exactly when `homeworks` is not
\* empty and the first message differs from last_homework_status; the
\* statuses A, B, A over three cycles produce three attempts when
\* last_homework_status is not A at the start of the first cycle and every
\* attempted delivery succeeds.
C12_AttemptIffNew_ABADelivered ==
    /\ AttemptIffNew
    /\ (/\ StatusesABA
        /\ trail.val[1].before # trail.val[1].first
        /\ \A i \in 1..3 : trail.val[i].attempted = trail.val[i].delivered)
       => TrailAttempts = 3

\* three cycles A, B, A, each with its attempt
C12_Witness ==
    /\ pc = "finally"
    /\ StatusesABA
    /\ \A i \in 1..3 : trail.val[i].attempted = 1 /\ trail.val[i].delivered = 1
    /\ cycle.status_calls # <<>>

\* C13: only the first element of `homeworks` counts: the cycle sends the
\* same messages, raises the same error and ends with the same cursor,
\* last_homework_status and last_error as it does, from the same state and
\* with the same bot, for the response without the elements after the
\* first; so two responses with the same first element and current_date
\* are told apart by nothing the cycle does.
C13_OnlyFirstElementCounts ==
    pc = "finally" =>
        cycle.twin = [timestamp |-> timestamp,
                      last_homework_status |-> last_homework_status,
                      last_error |-> last_error,
                      error |-> cycle.error,
                      status_calls |-> cycle.status_calls,
                      error_calls |-> cycle.error_calls]

\* a notification delivered for a response whose second element is malformed
C13_Witness ==
    /\ pc = "finally"
    /\ homeworks # None
    /\ Len(homeworks.val) = 2
    /\ homeworks.val[2] = [status |-> "unknown"]
    /\ Delivered(cycle.status_calls) # <<>>
    /\ cycle.error = None

\* C14, as claimed: every cycle issues exactly one GET, whose from_date is
\* the cursor held at the start of the cycle: the startup time until a
\* notification is delivered, afterwards the current_date of the last cycle
\* that delivered one.
C14_OneGetFromCursor ==
    /\ pc = "finally" => cycle.from_dates = <<cycle.before.timestamp>>
    /\ pc = "try" => timestamp = last_date

\* the try block raised the HomeworkAPIError whose text starts with `head`
ApiError(head) ==
    /\ cycle.error # None
    /\ cycle.error.type = "HomeworkAPIError"
    /\ cycle.error.text[1] = head
    /\ api_response = None

\* C15: get_api_answer raises the network error for a transport failure,
\* otherwise the HTTP error for a status code other than 200, valid JSON
\* body or not, otherwise the parse error for a body that is no JSON, and
\* otherwise returns the parsed body.
C15_FetchClassification ==
    pc = "finally" =>
        IF cycle.http.transport # "ok"
        THEN ApiError("Oshibka seti pri zaprose k API. Prichina: ")
        ELSE IF cycle.http.status_code # 200
        THEN ApiError("Endpoint nedostupen. Kod otveta: ")
        ELSE IF cycle.http.json = NotJSON
        THEN ApiError("Oshibka parsinga JSON ot API. Kod otveta: ")
        ELSE /\ api_response = cycle.http.json
             /\ cycle.error # None => cycle.error.type # "HomeworkAPIError"

\* a response with status code 500 whose body is valid JSON
C15_Witness ==
    /\ pc = "finally"
    /\ cycle.http.transport = "ok"
    /\ cycle.http.status_code = 500
    /\ cycle.http.json = SamplePayload
    /\ cycle.error.type = "HomeworkAPIError"

\* the status message of this iteration was sent and its delivery failed
StatusDeliveryFailed ==
    /\ pc = "finally"
    /\ cycle.status_calls # <<>>
    /\ Delivered(cycle.status_calls) = <<>>

\* C16: when the delivery of a homework status message fails, the cycle
\* makes no call to forward an error, and last_error keeps the value it had
\* before the cycle, whatever that value was.
C16_FailedStatusDeliveryIsOnlyLogged ==
    StatusDeliveryFailed =>
        /\ cycle.error.type = "SendMessageError"
        /\ cycle.error_calls = <<>>
        /\ last_error = cycle.before.last_error

\* a status delivery fails while an earlier error is remembered
C16_Witness ==
    /\ StatusDeliveryFailed
    /\ cycle.before.last_error # EmptyStr
    /\ last_error = cycle.before.last_error

\* the try block got as far as the first homework, which is the one the API
\* keeps returning, and its message is not the one remembered
RetryDue ==
    /\ pc = "finally"
    /\ cycle.first = RetryMessage
    /\ cycle.before.last_homework_status # RetryMessage

\* C17: a status message whose delivery fails is retried. A failed delivery
\* leaves last_homework_status and the cursor as they were; every cycle that
\* translates the first homework to the message while it is not remembered
\* attempts its delivery; and when the API keeps returning that homework and
\* deliveries do not fail for ever, a failed delivery is followed by the
\* message being remembered for good with exactly one delivery of it.
C17_FailedStatusIsRetried ==
    /\ [](RetryDue => /\ Attempts(cycle, RetryMessage) = 1
                      /\ Deliveries(cycle, RetryMessage) = 0 =>
                             /\ last_homework_status =
                                    cycle.before.last_homework_status
                             /\ timestamp = cycle.before.timestamp)
    /\ []((RetryDue /\ Deliveries(cycle, RetryMessage) = 0)
            => <>[](last_homework_status = RetryMessage /\ watch.total = 1))

\* the delivery failed in the previous cycle and succeeds in this one
C17_Witness ==
    /\ RetryDue
    /\ prev # None
    /\ prev.first = RetryMessage
    /\ prev.attempted = 1
    /\ prev.delivered = 0
    /\ Deliveries(cycle, RetryMessage) = 1
    /\ last_homework_status = RetryMessage
    /\ watch.total = 1

\* the watched error, reported to the chat at some time and followed by a
\* cycle that did not raise, occurs for the first time since that cycle
ReportedErrorRecurs ==
    /\ watch # None
    /\ pc = "finally"
    /\ watch.was.total >= 1
    /\ watch.was.quiet
    /\ cycle.error # None
    /\ ErrorMessage(cycle.error) = watch.text

\* every cycle that does not raise ends with last_error = ''
QuietCycleResets ==
    (pc = "finally" /\ cycle.error = None) => last_error = EmptyStr

\* C18, as claimed: a cycle that does not raise resets last_error to '', so
\* an error whose message was reported before that cycle is delivered to the
\* chat again when it next occurs.
C18_ResetThenDeliveredAgain ==
    /\ QuietCycleResets
    /\ ReportedErrorRecurs => Deliveries(cycle, watch.text) = 1

\* C18, amended: a cycle that does not raise resets last_error to '', so
\* for an error whose message was reported before that cycle one delivery
\* is attempted again when it next occurs, and the message reaches the chat
\* again when that call of bot.send_message does not fail.
C18_ResetThenAttemptedAgain ==
    /\ QuietCycleResets
    /\ ReportedErrorRecurs =>
           /\ cycle.before.last_error # watch.text
           /\ Len(cycle.error_calls) = 1
           /\ cycle.error_calls[1].message = watch.text
           /\ Deliveries(cycle, watch.text) =
                  IF cycle.error_calls[1].delivered THEN 1 ELSE 0

\* the error is delivered a second time after a cycle that did not raise
C18_Witness ==
    /\ ReportedErrorRecurs
    /\ Deliveries(cycle, watch.text) = 1
    /\ watch.total = 2

\* the cycle called bot.send_message with an error message and it failed
ForwardFailed ==
    /\ pc = "finally"
    /\ cycle.error_calls # <<>>
    /\ Delivered(cycle.error_calls) = <<>>

\* C19: a cycle leaves in last_error a formatted error message it did not
\* find there only when it delivered that message to the chat; when the
\* forwarding fails last_error keeps its value, and when the same error is
\* raised again in the next cycle that cycle attempts the delivery again.
C19_LastErrorOnlyWhenDelivered ==
    /\ (pc = "finally" /\ last_error \notin {EmptyStr, cycle.before.last_error})
           => Delivered(cycle.error_calls) = <<last_error>>
    /\ ForwardFailed => last_error = cycle.before.last_error
    /\ (/\ watch # None
        /\ pc = "finally"
        /\ watch.was.failed
        /\ cycle.error # None
        /\ ErrorMessage(cycle.error) = watch.text)
           => /\ Len(cycle.error_calls) = 1
              /\ cycle.error_calls[1].message = watch.text

\* the forwarding of the watched error failed in the previous cycle, and
\* this cycle, which raised the same error, has sent it again
C19_Witness ==
    /\ watch # None
    /\ pc = "finally"
    /\ watch.was.failed
    /\ cycle.error # None
    /\ ErrorMessage(cycle.error) = watch.text
    /\ Attempts(cycle, watch.text) = 1
====
